---- MODULE Spec2Model ----
(***************************************************************************)
(* A model of src/cryptography.js: the Cryptography facade (hash, salt,    *)
(* encrypt, decrypt) and its two encoding helpers (u8a2b64, b642u8a).      *)
(*                                                                         *)
(* JavaScript strings are sequences of UTF-16 code units (0..65535), byte  *)
(* arrays are sequences of 0..255.  The platform functions the facade      *)
(* calls are modelled by what their standards say they do:                 *)
(*   btoa / atob           HTML "forgiving-base64" encode and decode       *)
(*   TextEncoder / Decoder WHATWG Encoding, UTF-8, default options         *)
(*   crypto.subtle.*       W3C WebCrypto; the primitives themselves        *)
(*                         (SHA-256, AES-GCM, PBKDF2) are ideal: they are  *)
(*                         deterministic, of the right output length, and  *)
(*                         free of collisions on the inputs of the model   *)
(*   crypto.getRandomValues an ideal source: no draw repeats an earlier one*)
(* A call that throws or whose promise rejects returns a result record     *)
(* with ok = FALSE and the name of the exception.                          *)
(***************************************************************************)
EXTENDS Integers, Sequences, FiniteSets, TLC

VARIABLES calls, draws, codec

vars == <<calls, draws, codec>>

(***************************************************************************)
(* Results of calls and of helpers that may throw.                         *)
(***************************************************************************)
InvalidEncoding == "InvalidCharacterError"
AuthenticationFailure == "OperationError"
InvalidKeyMaterial == "DataError"

Ok(v) == [ok |-> TRUE, err |-> "", value |-> v]
Throw(e) == [ok |-> FALSE, err |-> e, value |-> <<>>]

(***************************************************************************)
(* Base 64 (btoa and atob).                                                *)
(***************************************************************************)
PadChar == 61

\* the character of a 6-bit value: A-Z a-z 0-9 + /
B64Code(v) ==
  IF v < 26 THEN 65 + v
  ELSE IF v < 52 THEN 97 + (v - 26)
  ELSE IF v < 62 THEN 48 + (v - 52)
  ELSE IF v = 62 THEN 43 ELSE 47

\* the 6-bit value of a character, -1 when it is not of the alphabet
B64Val(c) ==
  IF c >= 65 /\ c <= 90 THEN c - 65
  ELSE IF c >= 97 /\ c <= 122 THEN c - 97 + 26
  ELSE IF c >= 48 /\ c <= 57 THEN c - 48 + 52
  ELSE IF c = 43 THEN 62
  ELSE IF c = 47 THEN 63 ELSE -1

\* btoa(data): throws when a code unit is above U+00FF, else the padded
\* base-64 of the code units taken as bytes
Btoa(s) ==
  IF \E i \in 1..Len(s) : s[i] > 255 THEN Throw(InvalidEncoding)
  ELSE LET n == Len(s)
           At(i) == IF i <= n THEN s[i] ELSE 0
           Triple(g) == At(3 * g + 1) * 65536 + At(3 * g + 2) * 256 + At(3 * g + 3)
           Sextet(g, j) == (Triple(g) \div (IF j = 0 THEN 262144
                                            ELSE IF j = 1 THEN 4096
                                            ELSE IF j = 2 THEN 64 ELSE 1)) % 64
           Ch(k) == LET g == (k - 1) \div 4
                        j == (k - 1) % 4
                    IN IF j >= 2 /\ 3 * g + j > n THEN PadChar
                       ELSE B64Code(Sextet(g, j))
       IN Ok([k \in 1..(4 * ((n + 2) \div 3)) |-> Ch(k)])

IsAsciiWhitespace(c) == c \in {9, 10, 12, 13, 32}

IsNotAsciiWhitespace(c) == ~IsAsciiWhitespace(c)

\* atob(data): forgiving-base64 decode. ASCII whitespace is removed; when the
\* length is then a multiple of 4, one or two trailing "=" are removed; a
\* length of 1 modulo 4 or a character outside the alphabet throws; the bits
\* left over after the last whole byte are discarded, whatever they are
Atob(s) ==
  LET t == SelectSeq(s, IsNotAsciiWhitespace)
      n == Len(t)
      pad == IF n % 4 = 0 /\ n > 0
             THEN IF t[n] = PadChar
                  THEN IF t[n - 1] = PadChar THEN 2 ELSE 1
                  ELSE 0
             ELSE 0
      d == SubSeq(t, 1, n - pad)
      m == Len(d)
      V(i) == IF i <= m THEN B64Val(d[i]) ELSE 0
      Byte(k) == LET g == (k - 1) \div 3
                     r == (k - 1) % 3
                 IN IF r = 0 THEN V(4 * g + 1) * 4 + (V(4 * g + 2) \div 16)
                    ELSE IF r = 1 THEN (V(4 * g + 2) % 16) * 16 + (V(4 * g + 3) \div 4)
                    ELSE (V(4 * g + 3) % 4) * 64 + V(4 * g + 4)
  IN IF m % 4 = 1 \/ (\E i \in 1..m : B64Val(d[i]) < 0) THEN Throw(InvalidEncoding)
     ELSE Ok([k \in 1..((m * 6) \div 8) |-> Byte(k)])

\* String.fromCharCode(...u8a): one code unit per element
FromCharCode(u8a) == [i \in 1..Len(u8a) |-> u8a[i] % 65536]

\* new Uint8Array([...str].map(c => c.charCodeAt(0))): element values modulo 256
ToUint8Array(str) == [i \in 1..Len(str) |-> str[i] % 256]

\* s without the "=" at its end
RECURSIVE StripPad(_)
StripPad(s) ==
  IF s # <<>> /\ s[Len(s)] = PadChar THEN StripPad(SubSeq(s, 1, Len(s) - 1)) ELSE s

\* u8a2b64 leaving the padding off, as the URL-safe encoders do
u8a2b64Unpadded(u8a) ==
  LET r == Btoa(FromCharCode(u8a))
  IN IF r.ok THEN Ok(StripPad(r.value)) ELSE r

\* u8a2b64(u8a), line 102
u8a2b64(u8a) == Btoa(FromCharCode(u8a))

\* b642u8a building an Int8Array: elements above 127 come out negative
b642u8aSigned(b64) ==
  LET r == Atob(b64)
  IN IF r.ok
     THEN Ok([i \in 1..Len(r.value) |->
                IF r.value[i] >= 128 THEN r.value[i] - 256 ELSE r.value[i]])
     ELSE r

\* b642u8a catching the exception of atob and returning no bytes
b642u8aQuiet(b64) ==
  LET r == Atob(b64)
  IN IF r.ok THEN Ok(ToUint8Array(r.value)) ELSE Ok(<<>>)

\* b642u8a(b64), line 113: the exception of atob propagates
b642u8a(b64) ==
  LET r == Atob(b64)
  IN IF r.ok THEN Ok(ToUint8Array(r.value)) ELSE r

(***************************************************************************)
(* Text (TextEncoder and TextDecoder, UTF-8).                              *)
(***************************************************************************)
Replacement == 65533
ByteOrderMark == 65279

IsHigh(u) == u >= 55296 /\ u <= 56319
IsLow(u) == u >= 56320 /\ u <= 57343

\* a string's scalar values: a surrogate pair is one code point, a surrogate
\* on its own becomes U+FFFD
RECURSIVE ScalarValues(_)
ScalarValues(s) ==
  IF s = <<>> THEN <<>>
  ELSE IF IsHigh(s[1]) /\ Len(s) >= 2 /\ IsLow(s[2])
       THEN <<65536 + (s[1] - 55296) * 1024 + (s[2] - 56320)>>
            \o ScalarValues(SubSeq(s, 3, Len(s)))
  ELSE IF IsHigh(s[1]) \/ IsLow(s[1])
       THEN <<Replacement>> \o ScalarValues(Tail(s))
  ELSE <<s[1]>> \o ScalarValues(Tail(s))

Utf8Bytes(cp) ==
  IF cp < 128 THEN <<cp>>
  ELSE IF cp < 2048 THEN <<192 + (cp \div 64), 128 + (cp % 64)>>
  ELSE IF cp < 65536
       THEN <<224 + (cp \div 4096), 128 + ((cp \div 64) % 64), 128 + (cp % 64)>>
  ELSE <<240 + (cp \div 262144), 128 + ((cp \div 4096) % 64),
         128 + ((cp \div 64) % 64), 128 + (cp % 64)>>

RECURSIVE Utf8Encode(_)
Utf8Encode(cps) ==
  IF cps = <<>> THEN <<>> ELSE Utf8Bytes(cps[1]) \o Utf8Encode(Tail(cps))

\* new TextEncoder().encode(str)
TextEncode(str) == Utf8Encode(ScalarValues(str))

\* the UTF-8 decoder of the Encoding standard, errors replaced by U+FFFD;
\* cp, seen, needed, lower and upper are the decoder's state
RECURSIVE Utf8Decode(_, _, _, _, _, _)
Utf8Decode(bytes, cp, seen, needed, lower, upper) ==
  IF bytes = <<>> THEN (IF needed # 0 THEN <<Replacement>> ELSE <<>>)
  ELSE LET b == bytes[1]
           rest == Tail(bytes)
       IN IF needed = 0
          THEN IF b <= 127 THEN <<b>> \o Utf8Decode(rest, 0, 0, 0, 128, 191)
               ELSE IF b >= 194 /\ b <= 223
                    THEN Utf8Decode(rest, b % 32, 0, 1, 128, 191)
               ELSE IF b >= 224 /\ b <= 239
                    THEN Utf8Decode(rest, b % 16, 0, 2,
                                    IF b = 224 THEN 160 ELSE 128,
                                    IF b = 237 THEN 159 ELSE 191)
               ELSE IF b >= 240 /\ b <= 244
                    THEN Utf8Decode(rest, b % 8, 0, 3,
                                    IF b = 240 THEN 144 ELSE 128,
                                    IF b = 244 THEN 143 ELSE 191)
               ELSE <<Replacement>> \o Utf8Decode(rest, 0, 0, 0, 128, 191)
          ELSE IF b < lower \/ b > upper
               THEN <<Replacement>> \o Utf8Decode(bytes, 0, 0, 0, 128, 191)
          ELSE IF seen + 1 = needed
               THEN <<cp * 64 + (b % 64)>> \o Utf8Decode(rest, 0, 0, 0, 128, 191)
          ELSE Utf8Decode(rest, cp * 64 + (b % 64), seen + 1, needed, 128, 191)

\* code points back to UTF-16 code units
RECURSIVE CodeUnits(_)
CodeUnits(cps) ==
  IF cps = <<>> THEN <<>>
  ELSE IF cps[1] >= 65536
       THEN <<55296 + ((cps[1] - 65536) \div 1024), 56320 + ((cps[1] - 65536) % 1024)>>
            \o CodeUnits(Tail(cps))
  ELSE <<cps[1]>> \o CodeUnits(Tail(cps))

\* new TextDecoder().decode(bytes): ignoreBOM is false by default, so a leading
\* EF BB BF is consumed and is not part of the string returned
TextDecode(bytes) ==
  LET body == IF Len(bytes) >= 3 /\ SubSeq(bytes, 1, 3) = <<239, 187, 191>>
              THEN SubSeq(bytes, 4, Len(bytes))
              ELSE bytes
  IN CodeUnits(Utf8Decode(body, 0, 0, 0, 128, 191))

(***************************************************************************)
(* The platform's cryptography (crypto.getRandomValues, crypto.subtle).    *)
(***************************************************************************)
IvLength == 64
SaltLength == 64
Iterations == 1000
HashBits == 512
DigestLength == 32
TagLength == 16

\* two checksums of a byte sequence (of the bytes, and of the bytes weighted
\* by their place); the ideal primitives below are built from them
RECURSIVE SumBytes(_, _)
SumBytes(s, i) ==
  IF i > Len(s) THEN 0 ELSE (s[i] + 1 + SumBytes(s, i + 1)) % 256

RECURSIVE SumPlaces(_, _)
SumPlaces(s, i) ==
  IF i > Len(s) THEN 0 ELSE (i * (s[i] + 1) + SumPlaces(s, i + 1)) % 256

Sums(s, i) == <<SumBytes(s, i), SumPlaces(s, i)>>

Mix(sums, w) == (sums[2] + w * sums[1]) % 256

\* crypto.getRandomValues(new Uint8Array(n)), the k-th draw of the source:
\* draws with different k differ
GetRandomValues(n, k) == [i \in 1..n |-> (101 * k + 7 * i) % 256]

\* crypto.subtle.digest("SHA-256", data): 32 bytes, different for different
\* data shorter than 32 bytes
Sha256(data) ==
  [i \in 1..DigestLength |->
     IF i = 1 THEN Len(data) % 256
     ELSE IF i - 1 <= Len(data) THEN (data[i - 1] + 31 * i) % 256
     ELSE (31 * i) % 256]

\* crypto.subtle.importKey("raw", keyData, {name: "AES-GCM"}, ...): DataError
\* unless the key data is 128, 192 or 256 bits
ImportAesKey(keyData) ==
  IF Len(keyData) \in {16, 24, 32} THEN Ok(keyData) ELSE Throw(InvalidKeyMaterial)

\* crypto.subtle.importKey("raw", keyData, "PBKDF2", ...): key data of any
\* length, the empty one included, is accepted
ImportPbkdf2Key(keyData) == Ok(keyData)

\* crypto.subtle.deriveBits({name: "PBKDF2", hash: "SHA-512", salt, iterations},
\* key, length): length / 8 bytes
Pbkdf2(key, saltBytes, iterations, length) ==
  LET k == Sums(key, 1)
      t == Sums(saltBytes, 1)
  IN [j \in 1..(length \div 8) |->
        (Mix(k, j) + Mix(t, j + 64) + iterations + j) % 256]

\* the key stream and the tag of AES-GCM under a key and an iv
KeyStream(key, iv) == (Mix(Sums(key, 1), 0) + Mix(Sums(iv, 1), 1)) % 256

AuthTag(key, iv, body) ==
  LET k == Sums(key, 1)
      v == Sums(iv, 1)
      b == Sums(body, 1)
  IN [j \in 1..TagLength |->
        (Mix(k, j) + Mix(v, 2 * j + 1) + Mix(b, 3 * j + 2)) % 256]

\* crypto.subtle.encrypt({name: "AES-GCM", iv}, key, data): the ciphertext
\* followed by the 128-bit authentication tag
AesGcmEncrypt(key, iv, data) ==
  LET ks == KeyStream(key, iv)
      body == [i \in 1..Len(data) |-> (data[i] + ks + 7 * i) % 256]
  IN body \o AuthTag(key, iv, body)

\* decryption in a mode that carries no tag to verify (AES-CTR)
AesGcmDecryptUnverified(key, iv, data) ==
  LET n == IF Len(data) < TagLength THEN 0 ELSE Len(data) - TagLength
      ks == KeyStream(key, iv)
  IN Ok([i \in 1..n |-> (data[i] - ks - 7 * i) % 256])

\* crypto.subtle.decrypt({name: "AES-GCM", iv}, key, data): OperationError
\* when the data is shorter than the tag or the tag does not verify
AesGcmDecrypt(key, iv, data) ==
  IF Len(data) < TagLength THEN Throw(AuthenticationFailure)
  ELSE LET n == Len(data) - TagLength
           ks == KeyStream(key, iv)
           body == SubSeq(data, 1, n)
           tag == SubSeq(data, n + 1, Len(data))
       IN IF AuthTag(key, iv, body) # tag THEN Throw(AuthenticationFailure)
          ELSE Ok([i \in 1..n |-> (body[i] - ks - 7 * i) % 256])

(***************************************************************************)
(* Calls in flight.  calls[c] is the frame of the c-th call made: its      *)
(* arguments, the place it is suspended at (pc: the awaited platform call),*)
(* its local constants (algorithm, digest, key) and its result (ret).      *)
(* rnd (the index of the call's own draw from the random source), src, vc  *)
(* and vi (where a decrypt call's arguments come from) record history.     *)
(* draws counts the draws made from crypto.getRandomValues.                *)
(***************************************************************************)
MaxCalls == 2

CallIds == 1..MaxCalls

NoResult == [ok |-> FALSE, err |-> "", value |-> <<>>]

NoFrame ==
  [op |-> "none", pc |-> "idle",
   text |-> <<>>, salt |-> <<>>, plaintext |-> <<>>, secret |-> <<>>,
   ciphertext |-> <<>>, iv |-> <<>>,
   rnd |-> 0, src |-> 0, vc |-> "same", vi |-> "same",
   algorithm |-> <<>>, digest |-> <<>>, key |-> <<>>,
   ret |-> NoResult]

Started == {c \in CallIds : calls[c].op # "none"}

Finished(c) == calls[c].pc = "done"

Fulfilled(c) == Finished(c) /\ calls[c].ret.ok

Rejected(c, e) == Finished(c) /\ ~calls[c].ret.ok /\ calls[c].ret.err = e

Returns(f, r) == [f EXCEPT !.pc = "done", !.ret = r]

\* ---- the arguments callers pass ----

\* "", "a"
Texts == {<<>>, <<97>>}

\* "", "a", "é€", U+FEFF "a", U+1F600 (a surrogate pair), and "a", a low
\* surrogate on its own, "a"
Plaintexts ==
  {<<>>, <<97>>, <<233, 8364>>, <<ByteOrderMark, 97>>, <<55357, 56832>>,
   <<97, 56832, 97>>}

\* "k", and two strings of one high surrogate each
Secrets == {<<107>>, <<55296>>, <<56319>>}

\* a salt stored by an earlier session
StoredSalt == u8a2b64(GetRandomValues(SaltLength, 0)).value

Variants == {"same", "unpadded", "newline", "noncanonical", "other", "malformed"}

\* the base-64 string s as a caller may hand it back: as it is; without its
\* padding; with a line feed after it; with the unused low bits of its last
\* character set; with its first character changed to another of the
\* alphabet; with its first character changed to "!"
Variant(v, s) ==
  LET n == Len(StripPad(s))
  IN IF v = "unpadded" THEN StripPad(s)
     ELSE IF v = "newline" THEN s \o <<10>>
     ELSE IF v = "noncanonical" /\ n > 0 /\ n < Len(s)
          THEN [s EXCEPT ![n] = B64Code(B64Val(s[n]) + 1)]
     ELSE IF v = "other" /\ n > 0
          THEN [s EXCEPT ![1] = B64Code((B64Val(s[1]) + 1) % 64)]
     ELSE IF v = "malformed" THEN <<33>> \o (IF s = <<>> THEN s ELSE Tail(s))
     ELSE s

\* ---- salt(), line 56 ----

SaltCall(c) ==
  /\ calls[c].op = "none"
  /\ c = Cardinality(Started) + 1
  /\ draws' = draws + 1
  /\ calls' = [calls EXCEPT ![c] =
       Returns([NoFrame EXCEPT !.op = "salt", !.rnd = draws + 1],
               u8a2b64(GetRandomValues(SaltLength, draws + 1)))]
  /\ UNCHANGED codec

\* ---- hash(text, salt), line 44 ----

\* the salts a caller has: the stored one and those salt() has returned
SaltArgs ==
  {StoredSalt}
    \cup {calls[c].ret.value : c \in {d \in CallIds : calls[d].op = "salt"}}

\* line 45, up to the await: importKey is called with the encoded text
HashCall(c, text, salt) ==
  /\ calls[c].op = "none"
  /\ c = Cardinality(Started) + 1
  /\ calls' = [calls EXCEPT ![c] =
       [NoFrame EXCEPT !.op = "hash", !.pc = "importKey",
                       !.text = text, !.salt = salt]]
  /\ UNCHANGED <<draws, codec>>

\* hash drawing a salt of its own, whatever salt it is passed
HashSaltBytesFresh(f) == Ok(GetRandomValues(SaltLength, Cardinality(Started)))

\* the salt option of line 46
HashSaltBytes(f) == b642u8a(f.salt)

\* line 45 resumes with the key; line 46 decodes the salt and calls deriveBits
HashImportKey(c) ==
  /\ calls[c].op = "hash" /\ calls[c].pc = "importKey"
  /\ LET f == calls[c]
         key == ImportPbkdf2Key(TextEncode(f.text))
         saltBytes == HashSaltBytes(f)
     IN calls' = [calls EXCEPT ![c] =
          IF ~key.ok THEN Returns(f, key)
          ELSE IF ~saltBytes.ok THEN Returns([f EXCEPT !.key = key.value], saltBytes)
          ELSE [f EXCEPT !.key = key.value, !.pc = "deriveBits"]]
  /\ UNCHANGED <<draws, codec>>

\* "Firefox hangs if the text is empty" (line 37): on such a runtime the
\* promise of a call with empty key material never settles
HashHang(c) ==
  /\ calls[c].op = "hash" /\ calls[c].pc = "deriveBits"
  /\ calls[c].key = <<>>
  /\ calls' = [calls EXCEPT ![c].pc = "hung"]
  /\ UNCHANGED <<draws, codec>>

\* line 46 resumes with the bits; line 47 returns them in base 64
HashDeriveBits(c) ==
  /\ calls[c].op = "hash" /\ calls[c].pc = "deriveBits"
  /\ LET f == calls[c]
         bits == Pbkdf2(f.key, HashSaltBytes(f).value, Iterations, HashBits)
     IN calls' = [calls EXCEPT ![c] = Returns(f, u8a2b64(bits))]
  /\ UNCHANGED <<draws, codec>>

\* ---- encrypt(plaintext, secret), line 69 ----

\* an iv drawn once, when the module is loaded, and used by every call
DrawIvOnce(k) == GetRandomValues(IvLength, 1)

\* the iv of line 70: the call's own draw
DrawIv(k) == GetRandomValues(IvLength, k)

\* algorithm as a variable of the module, which every call assigns: a call
\* that resumes reads what the call started last put there
EncryptAlgorithmShared(c) ==
  LET users == {d \in Started : calls[d].op \in {"encrypt", "decrypt"}}
      last == CHOOSE d \in users : \A x \in users : x <= d
  IN calls[last].algorithm

\* the algorithm object lines 72 to 74 of call c read
EncryptAlgorithm(c) == calls[c].algorithm

\* line 70 draws the iv; line 71, up to the await, calls digest
EncryptCall(c, plaintext, secret) ==
  /\ calls[c].op = "none"
  /\ c = Cardinality(Started) + 1
  /\ draws' = draws + 1
  /\ calls' = [calls EXCEPT ![c] =
       [NoFrame EXCEPT !.op = "encrypt", !.pc = "digest",
                       !.plaintext = plaintext, !.secret = secret,
                       !.rnd = draws + 1, !.algorithm = DrawIv(draws + 1)]]
  /\ UNCHANGED codec

\* line 71 resumes with the digest; line 72 calls importKey
EncryptDigest(c) ==
  /\ calls[c].op = "encrypt" /\ calls[c].pc = "digest"
  /\ calls' = [calls EXCEPT ![c].digest = Sha256(TextEncode(calls[c].secret)),
                            ![c].pc = "importKey"]
  /\ UNCHANGED <<draws, codec>>

\* line 72 resumes with the key; line 73 calls encrypt
EncryptImportKey(c) ==
  /\ calls[c].op = "encrypt" /\ calls[c].pc = "importKey"
  /\ LET f == calls[c]
         key == ImportAesKey(f.digest)
     IN calls' = [calls EXCEPT ![c] =
          IF ~key.ok THEN Returns(f, key)
          ELSE [f EXCEPT !.key = key.value, !.pc = "encrypt"]]
  /\ UNCHANGED <<draws, codec>>

\* line 73 resumes with the encryption; line 74 returns it with the iv
EncryptReturn(c) ==
  /\ calls[c].op = "encrypt" /\ calls[c].pc = "encrypt"
  /\ LET f == calls[c]
         encryption == AesGcmEncrypt(f.key, EncryptAlgorithm(c), TextEncode(f.plaintext))
         iv == u8a2b64(EncryptAlgorithm(c))
         ciphertext == u8a2b64(encryption)
     IN calls' = [calls EXCEPT ![c] =
          IF ~iv.ok THEN Returns(f, iv)
          ELSE IF ~ciphertext.ok THEN Returns(f, ciphertext)
          ELSE Returns(f, Ok([iv |-> iv.value, ciphertext |-> ciphertext.value]))]
  /\ UNCHANGED <<draws, codec>>

\* ---- decrypt(ciphertext, iv, secret), line 87 ----

\* what a caller decrypts: the output of an encrypt call e that has returned,
\* both strings as returned and any secret, or one of the two strings changed
\* and the secret of e
DecryptArgs ==
  {<<"same", "same", s>> : s \in Secrets}
    \cup {<<v, "same", <<>>>> : v \in Variants \ {"same"}}
    \cup {<<"same", v, <<>>>> : v \in Variants \ {"same"}}

\* line 88 decodes the iv; line 89, up to the await, calls digest
DecryptCall(c, e, vc, vi, secret) ==
  /\ calls[c].op = "none"
  /\ c = Cardinality(Started) + 1
  /\ calls[e].op = "encrypt" /\ Fulfilled(e)
  /\ LET f == [NoFrame EXCEPT !.op = "decrypt", !.pc = "digest",
                              !.ciphertext = Variant(vc, calls[e].ret.value.ciphertext),
                              !.iv = Variant(vi, calls[e].ret.value.iv),
                              !.secret = secret,
                              !.src = e, !.vc = vc, !.vi = vi]
         iv == b642u8a(f.iv)
     IN calls' = [calls EXCEPT ![c] =
          IF ~iv.ok THEN Returns(f, iv) ELSE [f EXCEPT !.algorithm = iv.value]]
  /\ UNCHANGED <<draws, codec>>

\* line 89 resumes with the digest; line 90 calls importKey
DecryptDigest(c) ==
  /\ calls[c].op = "decrypt" /\ calls[c].pc = "digest"
  /\ calls' = [calls EXCEPT ![c].digest = Sha256(TextEncode(calls[c].secret)),
                            ![c].pc = "importKey"]
  /\ UNCHANGED <<draws, codec>>

\* line 90 resumes with the key; line 91 decodes the ciphertext and calls decrypt
DecryptImportKey(c) ==
  /\ calls[c].op = "decrypt" /\ calls[c].pc = "importKey"
  /\ LET f == calls[c]
         key == ImportAesKey(f.digest)
         data == b642u8a(f.ciphertext)
     IN calls' = [calls EXCEPT ![c] =
          IF ~key.ok THEN Returns(f, key)
          ELSE IF ~data.ok THEN Returns([f EXCEPT !.key = key.value], data)
          ELSE [f EXCEPT !.key = key.value, !.pc = "decrypt"]]
  /\ UNCHANGED <<draws, codec>>

\* line 91 resumes with the decryption, or throws; line 92 returns the text
DecryptReturn(c) ==
  /\ calls[c].op = "decrypt" /\ calls[c].pc = "decrypt"
  /\ LET f == calls[c]
         decryption == AesGcmDecrypt(f.key, f.algorithm, b642u8a(f.ciphertext).value)
     IN calls' = [calls EXCEPT ![c] =
          IF ~decryption.ok THEN Returns(f, decryption)
          ELSE Returns(f, Ok(TextDecode(decryption.value)))]
  /\ UNCHANGED <<draws, codec>>

NoCodec == [dir |-> "none", pc |-> 0, input |-> <<>>, mid |-> NoResult, out |-> NoResult]

Init ==
  /\ calls = [c \in CallIds |-> NoFrame]
  /\ draws = 0
  /\ codec = NoCodec

\* Callers of every operation at once, with few arguments: a salt, a text
\* that may be empty, two plaintexts, and the right or a wrong secret
Next ==
  \/ \E c \in CallIds : SaltCall(c)
  \/ \E c \in CallIds, text \in Texts, salt \in SaltArgs : HashCall(c, text, salt)
  \/ \E c \in CallIds : HashImportKey(c)
  \/ \E c \in CallIds : HashHang(c)
  \/ \E c \in CallIds : HashDeriveBits(c)
  \/ \E c \in CallIds, plaintext \in {<<97>>, <<233, 8364>>} :
       EncryptCall(c, plaintext, <<107>>)
  \/ \E c \in CallIds : EncryptDigest(c)
  \/ \E c \in CallIds : EncryptImportKey(c)
  \/ \E c \in CallIds : EncryptReturn(c)
  \/ \E c \in CallIds, e \in CallIds, secret \in {<<107>>, <<55296>>} :
       DecryptCall(c, e, "same", "same", secret)
  \/ \E c \in CallIds : DecryptDigest(c)
  \/ \E c \in CallIds : DecryptImportKey(c)
  \/ \E c \in CallIds : DecryptReturn(c)

Spec == Init /\ [][Next]_vars

\* no call is in flight
Quiet == \A c \in Started : Finished(c)

\* The usage of lines 29 to 31: one caller awaits encrypt, with any plaintext
\* and secret above, then awaits decrypt, once or more, handing back the
\* strings encrypt returned in every variant
NextSession ==
  \/ /\ Started = {}
     /\ \E c \in CallIds, plaintext \in Plaintexts, secret \in Secrets :
          EncryptCall(c, plaintext, secret)
  \/ \E c \in CallIds : EncryptDigest(c)
  \/ \E c \in CallIds : EncryptImportKey(c)
  \/ \E c \in CallIds : EncryptReturn(c)
  \/ /\ Quiet
     /\ \E c \in CallIds, e \in CallIds, a \in DecryptArgs :
          DecryptCall(c, e, a[1], a[2], IF a[3] = <<>> THEN calls[e].secret ELSE a[3])
  \/ \E c \in CallIds : DecryptDigest(c)
  \/ \E c \in CallIds : DecryptImportKey(c)
  \/ \E c \in CallIds : DecryptReturn(c)

SpecSession == Init /\ [][NextSession]_vars

(***************************************************************************)
(* The two encoding helpers on their own: one helper applied to an input,  *)
(* then the other applied to what the first returned.                      *)
(***************************************************************************)
MaxBytes == 4
MaxChars == 4

ByteValues == {0, 1, 127, 128, 255}

\* byte sequences up to MaxBytes long over ByteValues, and every byte value
\* 0..255 at each place of a group of three
ByteSeqs ==
  UNION {[1..n -> ByteValues] : n \in 0..MaxBytes}
    \cup {<<b>> : b \in 0..255}
    \cup {<<b, 0, 0>> : b \in 0..255}
    \cup {<<0, b, 0>> : b \in 0..255}
    \cup {<<0, 0, b>> : b \in 0..255}

\* Q R U I J = line-feed !
Base64Chars == {81, 82, 85, 73, 74, PadChar, 10, 33}

\* strings up to MaxChars long over Base64Chars, and what u8a2b64 returns for
\* the byte sequences above, in every variant
Base64Strings ==
  UNION {[1..n -> Base64Chars] : n \in 0..MaxChars}
    \cup {Variant(v, u8a2b64(b).value) : v \in Variants, b \in ByteSeqs}

InitCodec ==
  /\ calls = [c \in CallIds |-> NoFrame]
  /\ draws = 0
  /\ codec \in
       {[NoCodec EXCEPT !.dir = "encode", !.input = b] : b \in ByteSeqs}
         \cup {[NoCodec EXCEPT !.dir = "decode", !.input = t] : t \in Base64Strings}

\* b642u8a(u8a2b64(b)): the inner call
EncodeBytes ==
  /\ codec.dir = "encode" /\ codec.pc = 0
  /\ codec' = [codec EXCEPT !.pc = 1, !.mid = u8a2b64(codec.input)]
  /\ UNCHANGED <<calls, draws>>

\* b642u8a(u8a2b64(b)): the outer call, when the inner one returned
DecodeBack ==
  /\ codec.dir = "encode" /\ codec.pc = 1 /\ codec.mid.ok
  /\ codec' = [codec EXCEPT !.pc = 2, !.out = b642u8a(codec.mid.value)]
  /\ UNCHANGED <<calls, draws>>

\* u8a2b64(b642u8a(s)): the inner call
DecodeString ==
  /\ codec.dir = "decode" /\ codec.pc = 0
  /\ codec' = [codec EXCEPT !.pc = 1, !.mid = b642u8a(codec.input)]
  /\ UNCHANGED <<calls, draws>>

\* u8a2b64(b642u8a(s)): the outer call, when the inner one returned
EncodeBack ==
  /\ codec.dir = "decode" /\ codec.pc = 1 /\ codec.mid.ok
  /\ codec' = [codec EXCEPT !.pc = 2, !.out = u8a2b64(codec.mid.value)]
  /\ UNCHANGED <<calls, draws>>

NextCodec == EncodeBytes \/ DecodeBack \/ DecodeString \/ EncodeBack

SpecCodec == InitCodec /\ [][NextCodec]_vars

(***************************************************************************)
(* What a call returns when it runs alone: the body of each function from  *)
(* its first line to its return, no other call in between.                 *)
(***************************************************************************)
SaltAlone(random) == u8a2b64(random)

HashAlone(text, salt) ==
  LET key == ImportPbkdf2Key(TextEncode(text))
      saltBytes == b642u8a(salt)
  IN IF ~key.ok THEN key
     ELSE IF ~saltBytes.ok THEN saltBytes
     ELSE u8a2b64(Pbkdf2(key.value, saltBytes.value, Iterations, HashBits))

EncryptAlone(plaintext, secret, random) ==
  LET key == ImportAesKey(Sha256(TextEncode(secret)))
      iv == u8a2b64(random)
  IN IF ~key.ok THEN key
     ELSE LET ciphertext == u8a2b64(AesGcmEncrypt(key.value, random, TextEncode(plaintext)))
          IN IF ~iv.ok THEN iv
             ELSE IF ~ciphertext.ok THEN ciphertext
             ELSE Ok([iv |-> iv.value, ciphertext |-> ciphertext.value])

DecryptAlone(ciphertext, iv, secret) ==
  LET ivBytes == b642u8a(iv)
      key == ImportAesKey(Sha256(TextEncode(secret)))
      data == b642u8a(ciphertext)
  IN IF ~ivBytes.ok THEN ivBytes
     ELSE IF ~key.ok THEN key
     ELSE IF ~data.ok THEN data
     ELSE LET decryption == AesGcmDecrypt(key.value, ivBytes.value, data.value)
          IN IF ~decryption.ok THEN decryption ELSE Ok(TextDecode(decryption.value))

Alone(f) ==
  IF f.op = "salt" THEN SaltAlone(GetRandomValues(SaltLength, f.rnd))
  ELSE IF f.op = "hash" THEN HashAlone(f.text, f.salt)
  ELSE IF f.op = "encrypt"
       THEN EncryptAlone(f.plaintext, f.secret, GetRandomValues(IvLength, f.rnd))
  ELSE DecryptAlone(f.ciphertext, f.iv, f.secret)

(***************************************************************************)
(* Kinds of base-64 string, by their characters alone.                     *)
(***************************************************************************)
PadCount(s) ==
  IF Len(s) >= 1 /\ s[Len(s)] = PadChar
  THEN IF Len(s) >= 2 /\ s[Len(s) - 1] = PadChar THEN 2 ELSE 1
  ELSE 0

\* standard base 64: whole groups of four, characters of the alphabet, and
\* one or two "=" only at the end
IsStandardBase64(s) ==
  /\ Len(s) % 4 = 0
  /\ \A i \in 1..(Len(s) - PadCount(s)) : B64Val(s[i]) >= 0

\* standard, and the bits of the last character that encode nothing are zero
IsCanonicalBase64(s) ==
  /\ IsStandardBase64(s)
  /\ PadCount(s) = 1 => B64Val(s[Len(s) - 1]) % 4 = 0
  /\ PadCount(s) = 2 => B64Val(s[Len(s) - 2]) % 16 = 0

\* what atob rejects: with the ASCII whitespace taken out, and one or two "="
\* taken off the end of a string of whole groups, a character outside the
\* alphabet is left or the length is 1 modulo 4
AtobRejects(s) ==
  LET t == SelectSeq(s, IsNotAsciiWhitespace)
      m == Len(t) - (IF Len(t) % 4 = 0 THEN PadCount(t) ELSE 0)
  IN m % 4 = 1 \/ \E i \in 1..m : B64Val(t[i]) < 0

\* the decrypt calls that hand back what encrypt call calls[d].src returned
Decrypts == {d \in CallIds : calls[d].op = "decrypt"}

Source(d) == calls[calls[d].src]

(***************************************************************************)
(* The claims.                                                             *)
(***************************************************************************)

\* C1: decrypt(ciphertext, iv, s) of what encrypt(p, s) returned is p, for
\* every plaintext string p and every secret s.
C1_RoundTrip ==
  \A d \in Decrypts :
    (Finished(d) /\ calls[d].vc = "same" /\ calls[d].vi = "same"
       /\ calls[d].secret = Source(d).secret)
      => calls[d].ret.ok /\ calls[d].ret.value = Source(d).plaintext

\* C2: decrypt of what encrypt(p, s) returned with a secret string s2 other
\* than s fails with AuthenticationFailure and returns no plaintext.
C2_WrongSecretDetected ==
  \A d \in Decrypts :
    (Finished(d) /\ calls[d].vc = "same" /\ calls[d].vi = "same"
       /\ calls[d].secret # Source(d).secret)
      => Rejected(d, AuthenticationFailure)

\* C3 as claimed: decrypt of the ciphertext encrypt returned, with the right
\* secret and a base-64 string iv2 other than the iv returned, fails with
\* AuthenticationFailure.
C3_IvMismatchDetected ==
  \A d \in Decrypts :
    (Finished(d) /\ calls[d].vc = "same" /\ calls[d].secret = Source(d).secret
       /\ IsStandardBase64(calls[d].iv) /\ calls[d].iv # Source(d).ret.value.iv)
      => Rejected(d, AuthenticationFailure)

\* C3 as amended: with the ciphertext encrypt returned and the right secret,
\* an iv string that atob rejects fails with InvalidEncoding; one that decodes
\* to other bytes than the iv drawn fails with AuthenticationFailure; one that
\* decodes to the bytes of the iv drawn, whatever its characters, decrypts as
\* the iv returned does.
C3_IvBytesMismatchDetected ==
  \A d \in Decrypts :
    (Finished(d) /\ calls[d].vc = "same" /\ calls[d].secret = Source(d).secret)
      => LET iv2 == Atob(calls[d].iv)
         IN /\ ~iv2.ok => Rejected(d, InvalidEncoding)
            /\ (iv2.ok /\ iv2.value # Source(d).algorithm)
                 => Rejected(d, AuthenticationFailure)
            /\ (iv2.ok /\ iv2.value = Source(d).algorithm)
                 => calls[d].ret =
                      DecryptAlone(calls[d].ciphertext, Source(d).ret.value.iv,
                                   calls[d].secret)

\* a decrypt call handed the iv with its first character changed has failed
\* with AuthenticationFailure
C3_Witness ==
  \E d \in Decrypts :
    /\ calls[d].vi = "other" /\ calls[d].vc = "same"
    /\ calls[d].secret = Source(d).secret
    /\ IsStandardBase64(calls[d].iv)
    /\ Rejected(d, AuthenticationFailure)

C5_EmptyTextRejected ==
  \A c \in CallIds :
    (calls[c].op = "hash" /\ calls[c].text = <<>>)
      => /\ calls[c].pc # "hung"
         /\ Finished(c) => Rejected(c, InvalidKeyMaterial)

\* C6: every encrypt call draws a 64-byte iv of its own inside the call and
\* returns that iv, in base 64, with the ciphertext made under it; no call
\* uses the iv of another call, and no two calls return the same output.
C6_FreshIv ==
  /\ \A c \in CallIds :
       calls[c].op = "encrypt" =>
         /\ calls[c].rnd \in 1..draws
         /\ calls[c].algorithm = GetRandomValues(IvLength, calls[c].rnd)
         /\ Fulfilled(c) =>
              LET iv == b642u8a(calls[c].ret.value.iv)
                  data == b642u8a(calls[c].ret.value.ciphertext)
              IN /\ iv.ok /\ data.ok
                 /\ Len(iv.value) = IvLength
                 /\ iv.value = calls[c].algorithm
                 /\ data.value =
                      AesGcmEncrypt(calls[c].key, iv.value, TextEncode(calls[c].plaintext))
  /\ \A c, d \in CallIds :
       (c # d /\ calls[c].op = "encrypt" /\ calls[d].op = "encrypt") =>
         /\ calls[c].rnd # calls[d].rnd
         /\ calls[c].algorithm # calls[d].algorithm
         /\ (Fulfilled(c) /\ Fulfilled(d)) =>
              /\ calls[c].ret.value.iv # calls[d].ret.value.iv
              /\ calls[c].ret # calls[d].ret

\* two encrypt calls with the same plaintext and secret have both returned
C6_Witness ==
  \E c, d \in CallIds :
    /\ c # d
    /\ calls[c].op = "encrypt" /\ calls[d].op = "encrypt"
    /\ Fulfilled(c) /\ Fulfilled(d)
    /\ calls[c].plaintext = calls[d].plaintext
    /\ calls[c].secret = calls[d].secret

\* C7 as claimed: decrypt with a ciphertext or an iv that is not a valid
\* base-64 string fails with InvalidEncoding and returns no plaintext.
C7_MalformedRejected ==
  \A d \in Decrypts :
    (Finished(d)
       /\ (~IsStandardBase64(calls[d].ciphertext) \/ ~IsStandardBase64(calls[d].iv)))
      => Rejected(d, InvalidEncoding)

\* C7 as amended: decrypt with a ciphertext or an iv that atob rejects fails
\* with InvalidEncoding and returns no plaintext.
C7_AtobRejectedRejected ==
  \A d \in Decrypts :
    (Finished(d) /\ (AtobRejects(calls[d].ciphertext) \/ AtobRejects(calls[d].iv)))
      => Rejected(d, InvalidEncoding)

\* a decrypt call handed a ciphertext with "!" in it has failed with
\* InvalidEncoding, at line 91
C7_Witness ==
  \E d \in Decrypts :
    /\ calls[d].vc = "malformed" /\ calls[d].vi = "same"
    /\ calls[d].key # <<>>
    /\ Rejected(d, InvalidEncoding)

C9_BytesRoundTrip ==
  codec.dir = "encode" =>
    /\ codec.pc >= 1 => codec.mid.ok
    /\ codec.pc = 2 =>
         /\ codec.out.ok
         /\ Len(codec.out.value) = Len(codec.input)
         /\ \A i \in 1..Len(codec.input) : codec.out.value[i] = codec.input[i]

\* four bytes, the last of them 255, have been encoded and decoded back
C9_Witness ==
  /\ codec.dir = "encode" /\ codec.pc = 2
  /\ Len(codec.input) = 4 /\ codec.input[4] = 255
  /\ codec.out.ok

\* C10 as claimed: u8a2b64(b642u8a(s)) is s, for every valid standard base-64
\* string s that b642u8a accepts.
C10_StandardRoundTrip ==
  (codec.dir = "decode" /\ codec.pc = 2 /\ IsStandardBase64(codec.input))
    => codec.out.ok /\ codec.out.value = codec.input

\* C10 as amended: b642u8a accepts every canonical standard base-64 string s
\* (padded, the unused bits of its last character zero), and
\* u8a2b64(b642u8a(s)) is s.
C10_CanonicalRoundTrip ==
  (codec.dir = "decode" /\ IsCanonicalBase64(codec.input)) =>
    /\ codec.pc >= 1 => codec.mid.ok
    /\ codec.pc = 2 => codec.out.ok /\ codec.out.value = codec.input

\* a canonical string of two groups, the second padded, has been decoded and
\* encoded back
C10_Witness ==
  /\ codec.dir = "decode" /\ codec.pc = 2
  /\ IsCanonicalBase64(codec.input)
  /\ Len(codec.input) = 8 /\ codec.input[8] = PadChar

====
